---- MODULE Spec2Model ----
(***************************************************************************)
(* Model of the detection components of ODLab: the PlainDETR transformer   *)
(* output split, the RetinaNet head, the SimOTA and Hungarian matchers,    *)
(* build_model, the BasicFPN and PaFPN necks, the FCOS head and the        *)
(* positional embedding of query positions.                                *)
(*                                                                         *)
(* Tensors are modelled by what the properties are about: their shapes     *)
(* and, per row, the identity of the query / anchor / level the row        *)
(* belongs to.  Values produced by floating-point kernels (IoU, losses)    *)
(* are drawn from small finite sets.  Each component has one variable      *)
(* holding the object's fields, the call's inputs and its result, and one  *)
(* specification of its own.                                               *)
(***************************************************************************)
EXTENDS Integers, Sequences, FiniteSets, TLC

VARIABLES detr, retina, dynk, simota, hungarian, build, pafpn,
          fpn, fcos, posembed

vars == <<detr, retina, dynk, simota, hungarian, build, pafpn,
          fpn, fcos, posembed>>

\* A component that is not exercised by a specification stays idle.
Idle == [pc |-> "idle"]

\* The value v; comparing it makes TLC tabulate a function once instead of
\* re-evaluating its body at every application.
Tabulated(v) == IF v = v THEN v ELSE v

Min(a, b) == IF a < b THEN a ELSE b
Max(a, b) == IF a > b THEN a ELSE b

\* Python slicing s[:k] and s[k:] of a sequence, for k >= 0 (k is clamped to len(s)).
PySliceTo(s, k)   == SubSeq(s, 1, Min(k, Len(s)))
PySliceFrom(s, k) == SubSeq(s, Min(k, Len(s)) + 1, Len(s))

\* Python s[-1] and s[:-1]
PyLast(s)    == s[Len(s)]
PyButLast(s) == SubSeq(s, 1, Len(s) - 1)

(***************************************************************************)
(* PlainDETRTransformer                                                    *)
(***************************************************************************)
MaxOne2One  == 3
MaxOne2Many == 3
MaxDecoder  == 2

\* __init__: num_queries depends on is_train
NumQueries(is_train, n_one2one, n_one2many) ==
    IF is_train THEN n_one2one + n_one2many ELSE n_one2one

\* self_attn_mask = None
NoMask == [none |-> TRUE, mask |-> << >>]

InitDETR ==
    /\ retina = Idle /\ dynk = Idle /\ simota = Idle
    /\ hungarian = Idle /\ build = Idle /\ pafpn = Idle
    /\ fpn = Idle /\ fcos = Idle /\ posembed = Idle
    /\ \E it \in BOOLEAN, n1 \in 1..MaxOne2One, nm \in 0..MaxOne2Many,
           uf \in BOOLEAN, ri \in BOOLEAN, nd \in 1..MaxDecoder :
            detr = [pc |-> "built",
                    is_train |-> it,
                    num_queries_one2one |-> n1,
                    num_queries_one2many |-> nm,
                    num_queries |-> NumQueries(it, n1, nm),
                    upsample_first |-> uf,
                    return_intermediate |-> ri,
                    num_decoder |-> nd,
                    path |-> "none",
                    self_attn_mask |-> NoMask,
                    outputs |-> << >>]

\* The decoder keeps the query dimension: row q (0-based) of the output of
\* layer lid belongs to query q.  class_embed / bbox_embed act row by row.
HeadOutput(lid, num_queries) ==
    [i \in 1..num_queries |-> [layer |-> lid, query |-> i - 1]]

\* set_aux_loss: one dict per layer except the last
SetAuxLoss(outputs_class, outputs_coord) ==
    [l \in 1..Min(Len(PyButLast(outputs_class)), Len(PyButLast(outputs_coord))) |->
        [pred_logits |-> PyButLast(outputs_class)[l],
         pred_boxes  |-> PyButLast(outputs_coord)[l]]]

UseOne2Many(d) == d.num_queries_one2many > 0 /\ d.is_train

\* The indices a Python slice [k:] / [:k] selects in a dimension of size n
SliceFromIdx(k, n) == {i \in 0..(n - 1) : i >= k}
SliceToIdx(k, n)   == {i \in 0..(n - 1) : i < k}

\* torch.zeros([n, n]).bool(): rows and columns are indexed from 0
ZerosBool(n) == [i \in 0..(n - 1) |-> [j \in 0..(n - 1) |-> FALSE]]

\* mask[rows, cols] = True
SliceAssignTrue(mask, rows, cols) ==
    [i \in DOMAIN mask |->
        [j \in DOMAIN mask[i] |-> IF i \in rows /\ j \in cols THEN TRUE ELSE mask[i][j]]]

SelfAttnMaskOneWay(d) ==
    IF UseOne2Many(d)
    THEN [none |-> FALSE,
          mask |-> SliceAssignTrue(ZerosBool(d.num_queries),
                                   SliceFromIdx(d.num_queries_one2one, d.num_queries),
                                   SliceToIdx(d.num_queries_one2one, d.num_queries))]
    ELSE NoMask

\* "Prepare attn mask"
SelfAttnMask(d) ==
    IF UseOne2Many(d)
    THEN LET zeros == ZerosBool(d.num_queries)
             lower == SliceAssignTrue(zeros,
                                      SliceFromIdx(d.num_queries_one2one, d.num_queries),
                                      SliceToIdx(d.num_queries_one2one, d.num_queries))
             upper == SliceAssignTrue(lower,
                                      SliceToIdx(d.num_queries_one2one, d.num_queries),
                                      SliceFromIdx(d.num_queries_one2one, d.num_queries))
         IN  [none |-> FALSE, mask |-> upper]
    ELSE NoMask

OrganizeOutputsFlatAux(d, cls11, box11, cls1m, box1m) ==
    LET base == [k \in {"pred_logits", "pred_boxes"} |->
                    IF k = "pred_logits" THEN PyLast(cls11) ELSE PyLast(box11)]
        aux  == IF d.return_intermediate
                THEN [k \in {"aux_outputs"} |-> SetAuxLoss(cls11, box11)]
                ELSE << >>
        o2m  == IF UseOne2Many(d)
                THEN [k \in {"pred_logits_one2many", "pred_boxes_one2many"} |->
                        IF k = "pred_logits_one2many" THEN PyLast(cls1m) ELSE PyLast(box1m)]
                ELSE << >>
        auxm == IF d.return_intermediate
                THEN [k \in {"aux_outputs_one2many"} |-> SetAuxLoss(cls1m, box1m)]
                ELSE << >>
    IN  base @@ aux @@ o2m @@ auxm

\* "Re-organize outputs": the dictionary built from the per-layer lists
OrganizeOutputs(d, cls11, box11, cls1m, box1m) ==
    LET base == [k \in {"pred_logits", "pred_boxes"} |->
                    IF k = "pred_logits" THEN PyLast(cls11) ELSE PyLast(box11)]
        aux  == IF d.return_intermediate
                THEN [k \in {"aux_outputs"} |-> SetAuxLoss(cls11, box11)]
                ELSE << >>
        o2m  == IF UseOne2Many(d)
                THEN [k \in {"pred_logits_one2many", "pred_boxes_one2many"} |->
                        IF k = "pred_logits_one2many" THEN PyLast(cls1m) ELSE PyLast(box1m)]
                ELSE << >>
        auxm == IF UseOne2Many(d) /\ d.return_intermediate
                THEN [k \in {"aux_outputs_one2many"} |-> SetAuxLoss(cls1m, box1m)]
                ELSE << >>
    IN  base @@ aux @@ o2m @@ auxm

\* Detection head of forward_pre_upsample: the one-to-many slice starts at
\* num_queries_one2many.
PreUpsampleOne2ManyStart(d) == d.num_queries_one2many

\* Detection head of forward_post_upsample: the one-to-many slice starts at
\* num_queries_one2one.
PostUpsampleOne2ManyStart(d) == d.num_queries_one2one

DetectionHead(d, start) ==
    LET L     == d.num_decoder
        cls11 == [l \in 1..L |-> PySliceTo(HeadOutput(l - 1, d.num_queries), d.num_queries_one2one)]
        box11 == [l \in 1..L |-> PySliceTo(HeadOutput(l - 1, d.num_queries), d.num_queries_one2one)]
        cls1m == IF UseOne2Many(d)
                 THEN [l \in 1..L |-> PySliceFrom(HeadOutput(l - 1, d.num_queries), start)]
                 ELSE << >>
        box1m == IF UseOne2Many(d)
                 THEN [l \in 1..L |-> PySliceFrom(HeadOutput(l - 1, d.num_queries), start)]
                 ELSE << >>
    IN  OrganizeOutputs(d, cls11, box11, cls1m, box1m)

NotDETR == <<retina, dynk, simota, hungarian, build, pafpn,
    fpn, fcos, posembed>>

\* forward -> forward_pre_upsample
forward_pre_upsample ==
    /\ detr.pc = "built"
    /\ detr.upsample_first
    /\ detr' = [detr EXCEPT !.pc = "done", !.path = "pre",
                            !.self_attn_mask = SelfAttnMask(detr),
                            !.outputs = DetectionHead(detr, PreUpsampleOne2ManyStart(detr))]
    /\ UNCHANGED NotDETR

\* forward -> forward_post_upsample
forward_post_upsample ==
    /\ detr.pc = "built"
    /\ ~detr.upsample_first
    /\ detr' = [detr EXCEPT !.pc = "done", !.path = "post",
                            !.self_attn_mask = SelfAttnMask(detr),
                            !.outputs = DetectionHead(detr, PostUpsampleOne2ManyStart(detr))]
    /\ UNCHANGED NotDETR

NextDETR == forward_pre_upsample \/ forward_post_upsample

SpecDETR == InitDETR /\ [][NextDETR]_vars

\* The query indices of the rows of a one-layer output
QueriesOf(rows) == [i \in 1..Len(rows) |-> rows[i].query]
\* The sequence <<a, a+1, ..., b-1>>
Range(a, b) == [i \in 1..(b - a) |-> a + i - 1]

\* C1: when is_train and num_queries_one2many > 0, the one-to-one outputs are
\* exactly queries 0..num_queries_one2one-1 and the one-to-many outputs are
\* exactly the remaining num_queries_one2many queries, on both forward paths.
C1_QuerySplit ==
    (detr.pc = "done" /\ UseOne2Many(detr)) =>
        /\ QueriesOf(detr.outputs["pred_logits"]) = Range(0, detr.num_queries_one2one)
        /\ QueriesOf(detr.outputs["pred_boxes"])  = Range(0, detr.num_queries_one2one)
        /\ QueriesOf(detr.outputs["pred_logits_one2many"])
                = Range(detr.num_queries_one2one, detr.num_queries)
        /\ QueriesOf(detr.outputs["pred_boxes_one2many"])
                = Range(detr.num_queries_one2one, detr.num_queries)

\* The keys the returned dictionary is to have
ExpectedKeys(is_train, num_queries_one2many, return_intermediate) ==
    {"pred_logits", "pred_boxes"}
    \cup (IF return_intermediate THEN {"aux_outputs"} ELSE {})
    \cup (IF is_train /\ num_queries_one2many > 0
          THEN {"pred_logits_one2many", "pred_boxes_one2many"} ELSE {})
    \cup (IF return_intermediate /\ is_train /\ num_queries_one2many > 0
          THEN {"aux_outputs_one2many"} ELSE {})

\* C12: the dictionary forward returns always has pred_logits and pred_boxes,
\* has aux_outputs iff return_intermediate, has pred_logits_one2many and
\* pred_boxes_one2many iff is_train and num_queries_one2many > 0, and has
\* aux_outputs_one2many iff both conditions hold; the key set is the same on
\* the pre-upsample and the post-upsample path.
C12_OutputKeys ==
    detr.pc = "done" =>
        /\ detr.path \in {"pre", "post"}
        /\ DOMAIN detr.outputs =
              ExpectedKeys(detr.is_train, detr.num_queries_one2many, detr.return_intermediate)

\* The pre-upsample path in training with one-to-many queries and
\* intermediate outputs: all six keys
C12_Witness ==
    /\ detr.pc = "done" /\ detr.path = "pre"
    /\ detr.is_train /\ detr.num_queries_one2many > 0 /\ detr.return_intermediate
    /\ detr.num_decoder > 1
    /\ Cardinality(DOMAIN detr.outputs) = 6
    /\ Len(detr.outputs["aux_outputs_one2many"]) = detr.num_decoder - 1

\* C13: when is_train and num_queries_one2many > 0 the decoder self-attention
\* mask is num_queries x num_queries and entry (i, j) is True exactly when one
\* of i, j is a one-to-one query (index < num_queries_one2one) and the other a
\* one-to-many query, so it is symmetric and blocks no query from its own
\* group or from itself; otherwise the mask is None.
C13_GroupMask ==
    detr.pc = "done" =>
        IF detr.is_train /\ detr.num_queries_one2many > 0
        THEN LET Q == 0..(detr.num_queries - 1)
                 m == detr.self_attn_mask.mask
             IN  /\ ~detr.self_attn_mask.none
                 /\ DOMAIN m = Q
                 /\ \A i \in Q : DOMAIN m[i] = Q
                 /\ \A i \in Q : \A j \in Q :
                        /\ m[i][j] = ((i < detr.num_queries_one2one) # (j < detr.num_queries_one2one))
                        /\ m[i][j] = m[j][i]
                 /\ \A i \in Q : ~m[i][i]
        ELSE detr.self_attn_mask.none

\* Two queries in each group: cross-group entries blocked both ways,
\* same-group entries open
C13_Witness ==
    /\ detr.pc = "done" /\ detr.path = "post"
    /\ detr.is_train /\ detr.num_queries_one2one = 2 /\ detr.num_queries_one2many = 2
    /\ ~detr.self_attn_mask.none
    /\ detr.self_attn_mask.mask[0][2] /\ detr.self_attn_mask.mask[3][1]
    /\ ~detr.self_attn_mask.mask[0][1] /\ ~detr.self_attn_mask.mask[2][3]

(***************************************************************************)
(* RetinaNetHead                                                           *)
(***************************************************************************)
MaxAspectRatios == 2
MaxAreaScales   == 2
MaxClasses      == 2
MaxBatch        == 2
MaxLevels       == 2
MaxFmpSize      == 2

\* generate_anchor_sizes: number of anchors per grid cell
NumAnchorsPerCell(n_aspect_ratio, n_area_scale) == n_aspect_ratio * n_area_scale

\* All sequences over S of length 1..n
SeqsUpTo(S, n) == UNION {[1..k -> S] : k \in 1..n}

\* Number of elements of a tensor of the given shape
RECURSIVE Numel(_)
Numel(shape) == IF shape = << >> THEN 1 ELSE Head(shape) * Numel(Tail(shape))

\* nn.Conv2d(kernel_size=3, padding=1) on [B, C, H, W]: only the channels change
Conv2dShape(shape, out_channels) == <<shape[1], out_channels, shape[3], shape[4]>>

\* permute(0, 2, 3, 1): [B, C, H, W] -> [B, H, W, C]
Permute0231(shape) == <<shape[1], shape[3], shape[4], shape[2]>>

\* view(B, -1, last): the middle dimension is inferred from the element count
ViewB_1(shape, B, last) == <<B, Numel(shape) \div (B * last), last>>

\* generate_anchors: [HW, KA, 4] -> [M, 4], M = HW x KA
GenerateAnchorsShape(H, W, num_anchors) ==
    LET anchor_xy    == <<H * W, num_anchors, 2>>
        anchor_wh    == <<H * W, num_anchors, 2>>
        anchor_boxes == <<anchor_xy[1], anchor_xy[2], anchor_xy[3] + anchor_wh[3]>>
    IN  <<Numel(anchor_boxes) \div 4, 4>>

\* decode_boxes: pred_reg [B, M, 4] combined elementwise with anchor_boxes [M, 4];
\* the result has the broadcast shape (4 = 2 + 2 after the final cat).
DecodeBoxesShape(anchor_boxes, pred_reg) ==
    <<pred_reg[1], Max(pred_reg[2], anchor_boxes[1]), 4>>

\* The per-level body of RetinaNetHead.forward on a feature map [B, C, H, W]
RetinaLevel(r, fmp) ==
    LET H == fmp[1]
        W == fmp[2]
        cls_feat     == <<r.B, r.out_dim, H, W>>
        reg_feat     == <<r.B, r.out_dim, H, W>>
        anchor_boxes == GenerateAnchorsShape(cls_feat[3], cls_feat[4], r.num_anchors)
        cls_pred0    == Conv2dShape(cls_feat, r.num_classes)
        reg_pred0    == Conv2dShape(reg_feat, 4 * r.num_anchors)
        cls_pred     == ViewB_1(Permute0231(cls_pred0), r.B, r.num_classes)
        reg_pred     == ViewB_1(Permute0231(reg_pred0), r.B, 4)
        box_pred     == DecodeBoxesShape(anchor_boxes, reg_pred)
    IN  [anchors |-> anchor_boxes, pred_cls |-> cls_pred,
         pred_reg |-> reg_pred, pred_box |-> box_pred]

InitRetina ==
    /\ detr = Idle /\ dynk = Idle /\ simota = Idle
    /\ hungarian = Idle /\ build = Idle /\ pafpn = Idle
    /\ fpn = Idle /\ fcos = Idle /\ posembed = Idle
    /\ \E nar \in 1..MaxAspectRatios, nas \in 1..MaxAreaScales,
           nc \in 1..MaxClasses, b \in 1..MaxBatch,
           feats \in SeqsUpTo((1..MaxFmpSize) \X (1..MaxFmpSize), MaxLevels) :
            retina = [pc |-> "built",
                      n_aspect_ratio |-> nar,
                      n_area_scale |-> nas,
                      num_anchors |-> NumAnchorsPerCell(nar, nas),
                      num_classes |-> nc,
                      out_dim |-> 1,
                      B |-> b,
                      pyramid_feats |-> feats,
                      outputs |-> << >>]

NotRetina == <<detr, dynk, simota, hungarian, build, pafpn,
    fpn, fcos, posembed>>

\* RetinaNetHead.forward
RetinaForward ==
    /\ retina.pc = "built"
    /\ LET per == [l \in 1..Len(retina.pyramid_feats) |->
                        RetinaLevel(retina, retina.pyramid_feats[l])]
       IN retina' = [retina EXCEPT !.pc = "done",
               !.outputs = [pred_cls |-> [l \in DOMAIN per |-> per[l].pred_cls],
                            pred_reg |-> [l \in DOMAIN per |-> per[l].pred_reg],
                            pred_box |-> [l \in DOMAIN per |-> per[l].pred_box],
                            anchors  |-> [l \in DOMAIN per |-> per[l].anchors]]]
    /\ UNCHANGED NotRetina

NextRetina == RetinaForward

SpecRetina == InitRetina /\ [][NextRetina]_vars

\* C2: on every pyramid level pred_cls, pred_reg, pred_box and anchors hold the
\* same number M = H * W * KA of entries per image, KA = len(aspect_ratio) *
\* len(area_scale).
C2_SameEntryCount ==
    retina.pc = "done" =>
        \A l \in 1..Len(retina.pyramid_feats) :
            LET M == retina.pyramid_feats[l][1] * retina.pyramid_feats[l][2]
                        * retina.n_aspect_ratio * retina.n_area_scale
            IN  /\ retina.outputs.pred_cls[l][2] = M
                /\ retina.outputs.pred_reg[l][2] = M
                /\ retina.outputs.pred_box[l][2] = M
                /\ retina.outputs.anchors[l][1]  = M

(***************************************************************************)
(* build_model                                                             *)
(***************************************************************************)
MaxFragments == 2

\* Strings are sequences of characters, so that `in` is a real substring test.
S_fcos    == <<"f", "c", "o", "s">>
S_fcos_rt == <<"f", "c", "o", "s", "_", "r", "t">>
S_yolof   == <<"y", "o", "l", "o", "f">>

\* Pieces model names are assembled from: the detector names, pieces of them
\* (so that a substring can straddle two pieces) and unrelated text.
NameFragments ==
    { S_fcos, S_fcos_rt, S_yolof,
      <<"_", "r", "t">>, <<"f", "c", "o">>, <<"s">>, <<"y", "o", "l", "o">>,
      <<"f">>, <<"_", "r", "1", "8">>, <<"d", "e", "t", "r">> }

RECURSIVE Concat(_)
Concat(ss) == IF ss = << >> THEN << >> ELSE Head(ss) \o Concat(Tail(ss))

ModelNames == {Concat(fs) : fs \in SeqsUpTo(NameFragments, MaxFragments)}

\* Python `sub in s` for strings
StrIn(sub, s) ==
    \E i \in 0..(Len(s) - Len(sub)) : SubSeq(s, i + 1, i + Len(sub)) = sub

\* The if / elif chain of build_model: the builder that is called, or "none"
\* when the else branch is taken.
SelectBuilderFcosFirst(name) ==
    IF StrIn(S_fcos, name) THEN "build_fcos"
    ELSE IF StrIn(S_fcos_rt, name) THEN "build_fcos_rt"
    ELSE IF StrIn(S_yolof, name) THEN "build_yolof"
    ELSE "none"

SelectBuilder(name) ==
    IF StrIn(S_fcos_rt, name) THEN "build_fcos_rt"
    ELSE IF StrIn(S_fcos, name) THEN "build_fcos"
    ELSE IF StrIn(S_yolof, name) THEN "build_yolof"
    ELSE "none"

\* Attributes of a Python str that the else branch could look up
StrAttributes == {"format", "join", "split", "strip", "replace"}

\* The else branch evaluates "Unknown detector: {}".args.model before it can
\* construct the NotImplementedError: the attribute lookup on the str decides
\* which exception leaves build_model.
ElseBranchException ==
    IF "args" \in StrAttributes THEN "NotImplementedError" ELSE "AttributeError"

\* The checkpoint is loaded inside `if is_val:` when args.resume is not None
LoadsCheckpointAnyMode(is_val, resume) == resume # "None"

LoadsCheckpoint(is_val, resume) == is_val /\ resume # "None"

\* What build_model returns
ReturnValue(is_val) == IF is_val THEN <<"model", "criterion">> ELSE <<"model">>

InitBuild ==
    /\ detr = Idle /\ retina = Idle /\ dynk = Idle
    /\ simota = Idle /\ hungarian = Idle /\ pafpn = Idle
    /\ fpn = Idle /\ fcos = Idle /\ posembed = Idle
    /\ \E name \in ModelNames, iv \in BOOLEAN, res \in {"None", "ckpt.pth"} :
            build = [pc |-> "called",
                     model |-> name,
                     is_val |-> iv,
                     resume |-> res,
                     builder_calls |-> << >>,
                     exception |-> "none",
                     loaded |-> FALSE,
                     ret |-> << >>]

NotBuild == <<detr, retina, dynk, simota, hungarian, pafpn,
    fpn, fcos, posembed>>

\* build_model, a name that selects a detector
BuildModelReturn ==
    /\ build.pc = "called"
    /\ SelectBuilder(build.model) # "none"
    /\ build' = [build EXCEPT !.pc = "returned",
                    !.builder_calls = <<SelectBuilder(build.model)>>,
                    !.loaded = LoadsCheckpoint(build.is_val, build.resume),
                    !.ret = ReturnValue(build.is_val)]
    /\ UNCHANGED NotBuild

\* build_model, the else branch
BuildModelRaise ==
    /\ build.pc = "called"
    /\ SelectBuilder(build.model) = "none"
    /\ build' = [build EXCEPT !.pc = "raised", !.exception = ElseBranchException]
    /\ UNCHANGED NotBuild

NextBuild == BuildModelReturn \/ BuildModelRaise

SpecBuild == InitBuild /\ [][NextBuild]_vars

BuildFinished == build.pc \in {"returned", "raised"}

\* C7: build_model raises NotImplementedError when args.model contains none of
\* 'fcos_rt', 'fcos' and 'yolof'.
C7_RaisesNotImplemented ==
    (BuildFinished /\ ~StrIn(S_fcos_rt, build.model) /\ ~StrIn(S_fcos, build.model)
                   /\ ~StrIn(S_yolof, build.model)) =>
        (build.pc = "raised" /\ build.exception = "NotImplementedError")

C9_ReturnAndResume ==
    build.pc = "returned" =>
        /\ build.is_val  => build.ret = <<"model", "criterion">>
        /\ ~build.is_val => build.ret = <<"model">>
        /\ build.loaded <=> (build.is_val /\ build.resume # "None")

\* A training-mode call (is_val false) with a checkpoint named returned only the
\* model and loaded nothing.
C9_Witness ==
    /\ build.pc = "returned" /\ ~build.is_val /\ build.resume # "None"
    /\ build.ret = <<"model">> /\ ~build.loaded

(***************************************************************************)
(* PaFPN                                                                   *)
(***************************************************************************)
MaxInDims  == 3
MaxPaSize  == 4

\* Python list helpers
Reverse(s) == [i \in 1..Len(s) |-> s[Len(s) + 1 - i]]
InsertFront(s, x) == <<x>> \o s
Zip2Len(a, b)    == Min(Len(a), Len(b))
Zip3Len(a, b, c) == Min(Len(a), Min(Len(b), Len(c)))

\* Spatial size after nn.Conv2d(kernel_size=3, padding=1, stride=2)
DownsampleSize(n) == (n + 2 - 3) \div 2 + 1

\* PaFPN.__init__: num_fpn_feats
NumFpnFeats(n_in, p6_feat, p7_feat) ==
    n_in + (IF p6_feat THEN 1 ELSE 0) + (IF p7_feat THEN 1 ELSE 0)

\* The input pyramid [C3, C4, C5, ...]: level i has half the size of level i-1
RECURSIVE InputPyramid(_, _, _, _)
InputPyramid(i, n, h, w) ==
    IF i > n THEN << >>
    ELSE <<[level |-> i, h |-> h, w |-> w]>>
            \o InputPyramid(i + 1, n, DownsampleSize(h), DownsampleSize(w))

\* Top-down pass: the loop over zip(in_feats[1:], top_down_smooth_layers[1:]);
\* each step upsamples prev_feat to feat's size and inserts the sum at the front.
RECURSIVE TopDown(_, _, _, _)
TopDown(inter_feats, rest, k, steps) ==
    IF k > steps THEN inter_feats
    ELSE TopDown(InsertFront(inter_feats, rest[k]), rest, k + 1, steps)

\* Bottom-up pass: the loop over zip(inter_feats[1:], bottom_up_smooth_layers[1:],
\* bottom_up_downsample_layers); each step appends inter_feat + downsample(prev_feat).
RECURSIVE BottomUp(_, _, _, _)
BottomUp(out_feats, rest, k, steps) ==
    IF k > steps THEN out_feats
    ELSE BottomUp(Append(out_feats, rest[k]), rest, k + 1, steps)

\* PaFPN.forward: the pair (inter_feats, out_feats)
PaFPNForward(p) ==
    LET input_projs  == [i \in 1..p.n_in |-> "proj"]
        td_smooth    == [i \in 1..p.num_fpn_feats |-> "smooth"]
        bu_smooth    == [i \in 1..p.num_fpn_feats |-> "smooth"]
        bu_down      == [i \in 1..(p.num_fpn_feats - 1) |-> "down"]
        in_feats     == SubSeq(p.feats, 1, Zip2Len(p.feats, input_projs))
        in_rev       == Reverse(in_feats)
        inter_feats  == TopDown(<<in_rev[1]>>, Tail(in_rev), 1,
                                Zip2Len(Tail(in_rev), Tail(td_smooth)))
        out_feats    == BottomUp(<<inter_feats[1]>>, Tail(inter_feats), 1,
                                 Zip3Len(Tail(inter_feats), Tail(bu_smooth), bu_down))
    IN  [inter_feats |-> inter_feats, out_feats |-> out_feats]

InitPaFPN ==
    /\ detr = Idle /\ retina = Idle /\ dynk = Idle
    /\ simota = Idle /\ hungarian = Idle /\ build = Idle
    /\ fpn = Idle /\ fcos = Idle /\ posembed = Idle
    /\ \E n \in 1..MaxInDims, p6 \in BOOLEAN, p7 \in BOOLEAN,
           h \in 1..MaxPaSize, w \in 1..MaxPaSize :
            pafpn = [pc |-> "built",
                     n_in |-> n,
                     p6_feat |-> p6,
                     p7_feat |-> p7,
                     num_fpn_feats |-> NumFpnFeats(n, p6, p7),
                     feats |-> InputPyramid(1, n, h, w),
                     inter_feats |-> << >>,
                     out_feats |-> << >>]

NotPaFPN == <<detr, retina, dynk, simota, hungarian, build,
    fpn, fcos, posembed>>

\* PaFPN.forward
PaFPNForwardCall ==
    /\ pafpn.pc = "built"
    /\ pafpn' = [pafpn EXCEPT !.pc = "done",
                    !.inter_feats = PaFPNForward(pafpn).inter_feats,
                    !.out_feats = PaFPNForward(pafpn).out_feats]
    /\ UNCHANGED NotPaFPN

NextPaFPN == PaFPNForwardCall

SpecPaFPN == InitPaFPN /\ [][NextPaFPN]_vars

\* A list of feature maps is ordered from finest to coarsest
FinestToCoarsest(fs) ==
    \A i \in 1..(Len(fs) - 1) :
        fs[i].level < fs[i + 1].level /\ fs[i].h >= fs[i + 1].h /\ fs[i].w >= fs[i + 1].w

\* C10: PaFPN.forward returns num_fpn_feats feature maps ordered from finest to
\* coarsest, num_fpn_feats = len(in_dims) + [p6_feat] + [p7_feat]; with three
\* inputs and both flags set inter_feats and out_feats hold five levels.
C10_NumFpnFeats ==
    pafpn.pc = "done" =>
        /\ Len(pafpn.out_feats) = pafpn.n_in + (IF pafpn.p6_feat THEN 1 ELSE 0)
                                             + (IF pafpn.p7_feat THEN 1 ELSE 0)
        /\ FinestToCoarsest(pafpn.out_feats)
        /\ (pafpn.n_in = 3 /\ pafpn.p6_feat /\ pafpn.p7_feat) =>
                (Len(pafpn.inter_feats) = 5 /\ Len(pafpn.out_feats) = 5)

(***************************************************************************)
(* SimOTAMatcher.dynamic_k_matching                                        *)
(*                                                                         *)
(* A matrix [N, M] is a function [1..N -> [1..M -> value]]; rows are       *)
(* ground truths, columns are anchors.  IoUs are counted in tenths.        *)
(***************************************************************************)
MaxGT      == 2
MaxAnchors == 2

\* SimOTAMatcher.__init__: topk_candidate=10
TopkCandidate == 10

\* 1.0 as an IoU
IoUOne == 10

\* The (IoU, cost) pairs the two matrices are filled with, cell by cell: a good
\* cheap pair, a good expensive pair and a poor expensive pair.
MatchCells == {[iou |-> IoUOne, cost |-> 1], [iou |-> IoUOne, cost |-> 2],
               [iou |-> 5, cost |-> 2]}

Matrices(N, M, S) == [1..N -> [1..M -> S]]

RECURSIVE SumOver(_, _)
\* Sum of f[i] over the finite set I
SumOver(f, I) ==
    IF I = {} THEN 0
    ELSE LET i == CHOOSE j \in I : TRUE IN f[i] + SumOver(f, I \ {i})

\* torch.topk(row, k).sum(): the sum of the k largest entries of a row
RECURSIVE TopKSum(_, _, _)
TopKSum(row, I, k) ==
    IF k = 0 \/ I = {} THEN 0
    ELSE LET i == CHOOSE j \in I : \A l \in I : row[j] >= row[l]
         IN  row[i] + TopKSum(row, I \ {i}, k - 1)

\* dynamic_ks: clamp(topk_ious.sum(1).int(), min=1)
DynamicKs(pairwise_ious, N, M, topk_candidate) ==
    LET candidate_topk == Min(topk_candidate, M)
    IN  Tabulated([g \in 1..N |->
            Max(TopKSum(pairwise_ious[g], 1..M, candidate_topk) \div IoUOne, 1)])

\* The orders torch.sort(cost_matrix, dim=1) may return for one row: every
\* permutation of the anchors along which the cost does not decrease (the sort
\* is not stable, so equal costs may come in any order).
SortedIndices(row, M) ==
    {p \in [1..M -> 1..M] :
        /\ \A i, j \in 1..M : i # j => p[i] # p[j]
        /\ \A i \in 1..(M - 1) : row[p[i]] <= row[p[i + 1]]}

\* topk_ids = sorted_indices[gt_idx, :k], as the set of anchors it holds, for
\* every order the sort may return
TopkIds(row, k, M) ==
    {{p[i] : i \in 1..Min(k, M)} : p \in SortedIndices(row, M)}

\* One admissible topk_ids per ground truth: the sequences <<ids_1, ..., ids_n>>
RECURSIVE TopkIdsChoices(_, _, _, _)
TopkIdsChoices(cost_matrix, dynamic_ks, n, M) ==
    IF n = 0 THEN {<< >>}
    ELSE {Append(s, ids) : s \in TopkIdsChoices(cost_matrix, dynamic_ks, n - 1, M),
                           ids \in TopkIds(cost_matrix[n], dynamic_ks[n], M)}

\* The loop over gt_idx: matching_matrix[gt_idx, :][topk_ids] = 1
TopKMatching(topk_ids, N, M) ==
    [g \in 1..N |-> [a \in 1..M |-> IF a \in topk_ids[g] THEN 1 ELSE 0]]

ColSum(mat, N, a) == SumOver([g \in 1..N |-> mat[g][a]], 1..N)

\* torch.min(cost_matrix[:, col], dim=0): the index of the first minimal value
CostArgMin(cost_matrix, N, a) ==
    CHOOSE g \in 1..N :
        /\ \A h \in 1..N : cost_matrix[g][a] <= cost_matrix[h][a]
        /\ \A h \in 1..(g - 1) : cost_matrix[h][a] > cost_matrix[g][a]

\* Anchors matched to several ground truths keep only the cheapest one
ResolveConflictsNone(matching, cost_matrix, N, M) == matching

ResolveConflicts(matching, cost_matrix, N, M) ==
    [g \in 1..N |-> [a \in 1..M |->
        IF ColSum(matching, N, a) > 1
        THEN (IF CostArgMin(cost_matrix, N, a) = g THEN 1 ELSE 0)
        ELSE matching[g][a]]]

\* matching_matrix[:, fg].argmax(0): the first row holding the column's maximum
ArgMaxRow(matching, N, a) ==
    CHOOSE g \in 1..N :
        /\ \A h \in 1..N : matching[g][a] >= matching[h][a]
        /\ \A h \in 1..(g - 1) : matching[h][a] < matching[g][a]

\* The returned triple, with the matching matrix before and after the conflict
\* resolution kept for inspection.  Per-anchor results are indexed by the anchor.
DynamicKMatching(cost_matrix, pairwise_ious, N, M, topk_ids) ==
    LET prior      == Tabulated(TopKMatching(topk_ids, N, M))
        matching   == Tabulated(ResolveConflicts(prior, cost_matrix, N, M))
        fg         == Tabulated([a \in 1..M |-> ColSum(matching, N, a) > 0])
    IN  [prior_matrix    |-> prior,
         matching_matrix |-> matching,
         fg_mask_inboxes |-> fg,
         matched_pred_ious |-> [a \in {b \in 1..M : fg[b]} |->
                SumOver([g \in 1..N |-> matching[g][a] * pairwise_ious[g][a]], 1..N)],
         matched_gt_inds |-> [a \in {b \in 1..M : fg[b]} |-> ArgMaxRow(matching, N, a)]]

InitDynK ==
    /\ detr = Idle /\ retina = Idle /\ simota = Idle
    /\ hungarian = Idle /\ build = Idle /\ pafpn = Idle
    /\ fpn = Idle /\ fcos = Idle /\ posembed = Idle
    /\ \E N \in 1..MaxGT, M \in 1..MaxAnchors :
            \E cells \in Matrices(N, M, MatchCells) :
                dynk = [pc |-> "ready", num_gt |-> N, num_anchors |-> M,
                        topk_candidate |-> TopkCandidate,
                        cost_matrix |-> [g \in 1..N |-> [a \in 1..M |-> cells[g][a].cost]],
                        pairwise_ious |-> [g \in 1..N |-> [a \in 1..M |-> cells[g][a].iou]],
                        result |-> << >>]

NotDynK == <<detr, retina, simota, hungarian, build, pafpn,
    fpn, fcos, posembed>>

\* SimOTAMatcher.dynamic_k_matching
DynamicKMatchingCall ==
    /\ dynk.pc = "ready"
    /\ \E topk_ids \in TopkIdsChoices(dynk.cost_matrix,
                            DynamicKs(dynk.pairwise_ious, dynk.num_gt, dynk.num_anchors,
                                      dynk.topk_candidate),
                            dynk.num_gt, dynk.num_anchors) :
        dynk' = [dynk EXCEPT !.pc = "done",
                    !.result = DynamicKMatching(dynk.cost_matrix, dynk.pairwise_ious,
                                    dynk.num_gt, dynk.num_anchors, topk_ids)]
    /\ UNCHANGED NotDynK

NextDynK == DynamicKMatchingCall

SpecDynK == InitDynK /\ [][NextDynK]_vars

\* C3: after dynamic_k_matching every anchor is matched to at most one ground
\* truth: each column of the matching matrix sums to 0 or 1.
C3_AtMostOneGT ==
    dynk.pc = "done" =>
        \A a \in 1..dynk.num_anchors :
            ColSum(dynk.result.matching_matrix, dynk.num_gt, a) \in {0, 1}

\* An anchor that was among the top-k of two ground truths ended with one match.
C3_Witness ==
    /\ dynk.pc = "done"
    /\ \E a \in 1..dynk.num_anchors :
        /\ ColSum(dynk.result.prior_matrix, dynk.num_gt, a) > 1
        /\ ColSum(dynk.result.matching_matrix, dynk.num_gt, a) = 1

(***************************************************************************)
(* The matching cost shared by SimOTAMatcher and HungarianMatcher          *)
(*                                                                         *)
(* Boxes are <<x1, y1, x2, y2>> and anchors <<x, y>> with integer          *)
(* coordinates.  Losses are computed in hundredths and the cost matrix is  *)
(* rounded to integers.                                                    *)
(***************************************************************************)
\* max_pad_value: torch.ones_like(cost_matrix) * 1e9
PadValue == 1000000000

\* Anchor a of a one-row grid with stride 2: ((x + 0.5) * 2, 0.5 * 2)
Anchors(M) == [a \in 1..M |-> <<2 * a - 1, 1>>]

ZeroBox == <<0, 0, 0, 0>>

\* Ground truths (label, box): the all-zero padding box, a box left of and above
\* the image whose largest coordinate is 0, a box around anchor 1 (with either
\* label) and a box around anchors 1 and 2.
GroundTruths ==
    { [label |-> 0, box |-> ZeroBox],
      [label |-> 1, box |-> <<-2, -2, 0, 0>>],
      [label |-> 0, box |-> <<0, 0, 2, 2>>],
      [label |-> 1, box |-> <<0, 0, 2, 2>>],
      [label |-> 1, box |-> <<0, 0, 4, 2>>] }

GTLabels == {gt.label : gt \in GroundTruths}

\* The matchers are built for the classes of the ground truths
NumClasses == Cardinality(GTLabels)

\* Predictions of an anchor: a box of positive area and the class it votes for
Predictions ==
    { [box |-> <<0, 0, 2, 2>>, hot |-> 0],
      [box |-> <<0, 0, 4, 2>>, hot |-> 1],
      [box |-> <<2, 0, 4, 2>>, hot |-> 0] }

\* pred_cls of one anchor: logit 2 for its class, -2 for every other class
PredLogits(hot) == [c \in 0..(NumClasses - 1) |-> IF c = hot THEN 2 ELSE -2]

Min4(a, b, c, d) == Min(Min(a, b), Min(c, d))
Max4(a, b, c, d) == Max(Max(a, b), Max(c, d))

\* find_inside_points: is_in_gts[g][a]
FindInsidePoints(gt_bboxes, anchors) ==
    [g \in 1..Len(gt_bboxes) |-> [a \in 1..Len(anchors) |->
        Min4(anchors[a][1] - gt_bboxes[g][1], anchors[a][2] - gt_bboxes[g][2],
             gt_bboxes[g][3] - anchors[a][1], gt_bboxes[g][4] - anchors[a][2]) > 0]]

\* valid_mask = is_in_gt.sum(dim=0) > 0
ValidMaskNone(gt_bboxes, anchors) == [a \in 1..Len(anchors) |-> TRUE]

ValidMask(gt_bboxes, anchors) ==
    LET is_in_gt == FindInsidePoints(gt_bboxes, anchors)
    IN  [a \in 1..Len(anchors) |->
            SumOver([g \in 1..Len(gt_bboxes) |-> IF is_in_gt[g][a] THEN 1 ELSE 0],
                    1..Len(gt_bboxes)) > 0]

BoxArea(b) == (b[3] - b[1]) * (b[4] - b[2])

\* box_iou of one pair, in tenths (exact for the boxes above)
BoxIoU(b1, b2) ==
    LET w     == Max(Min(b1[3], b2[3]) - Max(b1[1], b2[1]), 0)
        h     == Max(Min(b1[4], b2[4]) - Max(b1[2], b2[2]), 0)
        inter == w * h
        union == BoxArea(b1) + BoxArea(b2) - inter
    IN  (IoUOne * inter) \div union

\* -log(iou + 1e-8) in hundredths, iou in tenths
NegLog(iou) ==
    CASE iou = 0 -> 1842 [] iou = 1 -> 230 [] iou = 2 -> 161 [] iou = 3 -> 120
      [] iou = 4 -> 92   [] iou = 5 -> 69  [] iou = 6 -> 51  [] iou = 7 -> 36
      [] iou = 8 -> 22   [] iou = 9 -> 11  [] OTHER -> 0

\* sigmoid(x) and log(1 + exp(-|x|)) in hundredths, for the logits 2 and -2
Sigmoid(x)    == IF x > 0 THEN 88 ELSE 12
Log1pExp(x)   == 13

\* F.binary_cross_entropy_with_logits(x, y, reduction="none") in hundredths:
\* max(x, 0) - x * y + log(1 + exp(-|x|)), y in tenths
BCEWithLogits(x, y) == 100 * Max(x, 0) - 10 * x * y + Log1pExp(x)

\* pair_wise_cls_loss, in hundredths: the BCE times (iou - sigmoid(x))^2
ClsLoss(x, iou) ==
    (BCEWithLogits(x, iou) * (10 * iou - Sigmoid(x)) * (10 * iou - Sigmoid(x))) \div 10000

\* pair_wise_ious[g][a]
PairWiseIoUs(gt_bboxes, pred_box) ==
    [g \in 1..Len(gt_bboxes) |-> [a \in 1..Len(pred_box) |->
        BoxIoU(gt_bboxes[g], pred_box[a])]]

\* pair_wise_cls_loss + 3.0 * pair_wise_reg_loss, rounded to an integer
RawCost(gt_labels, pred_cls, ious) ==
    [g \in 1..Len(gt_labels) |-> [a \in 1..Len(pred_cls) |->
        (ClsLoss(pred_cls[a][gt_labels[g]], ious[g][a]) + 3 * NegLog(ious[g][a]) + 50)
            \div 100]]

\* torch.where(valid_mask[None].repeat(num_gt, 1), cost_matrix, max_pad_value)
CostMatrix(gt_labels, gt_bboxes, anchors, pred_cls, pred_box) ==
    LET valid_mask == ValidMask(gt_bboxes, anchors)
        raw == RawCost(gt_labels, pred_cls, PairWiseIoUs(gt_bboxes, pred_box))
    IN  [g \in 1..Len(gt_labels) |-> [a \in 1..Len(anchors) |->
            IF valid_mask[a] THEN raw[g][a] ELSE PadValue]]

\* target[indices] = values for index lists: target[indices[i]] = values[i]
\* (the last write wins when an index repeats)
IndexPutByPosition(target, indices, values) ==
    [a \in 1..Len(target) |-> IF a \in 1..Len(values) THEN values[a] ELSE target[a]]

IndexPut(target, indices, values) ==
    [a \in 1..Len(target) |->
        IF \E i \in 1..Len(indices) : indices[i] = a
        THEN values[CHOOSE i \in 1..Len(indices) :
                        indices[i] = a /\ \A j \in 1..Len(indices) : indices[j] = a => j <= i]
        ELSE target[a]]

\* target[mask] = values for a boolean mask: the k-th TRUE position receives
\* the value of the k-th selected anchor (values are indexed by the anchor)
MaskedPut(target, mask, values) ==
    [a \in 1..Len(target) |-> IF mask[a] THEN values[a] ELSE target[a]]

\* tensor.new_full(shape, v) for a per-anchor tensor
NewFull(M, v) == [a \in 1..M |-> v]

\* gt_bboxes.max()
MaxCoord(gt_bboxes) ==
    LET m == [g \in 1..Len(gt_bboxes) |->
                Max4(gt_bboxes[g][1], gt_bboxes[g][2], gt_bboxes[g][3], gt_bboxes[g][4])]
    IN  CHOOSE v \in {m[g] : g \in 1..Len(gt_bboxes)} :
            \A g \in 1..Len(gt_bboxes) : m[g] <= v

\* The inputs of a matcher call
MatcherInputs(N, M, gts, preds) ==
    [num_gt |-> N, num_anchors |-> M,
     anchors   |-> Anchors(M),
     gt_labels |-> [g \in 1..N |-> gts[g].label],
     gt_bboxes |-> [g \in 1..N |-> gts[g].box],
     pred_cls  |-> [a \in 1..M |-> PredLogits(preds[a].hot)],
     pred_box  |-> [a \in 1..M |-> preds[a].box]]

(***************************************************************************)
(* SimOTAMatcher.__call__                                                  *)
(***************************************************************************)
\* The check at the top of __call__: num_gt == 0 or gt_bboxes.max().item() == 0.
NoGroundTruthOnlyEmpty(num_gt, gt_bboxes) == num_gt = 0

\* (`or` does not evaluate max() of an empty tensor)
NoGroundTruth(num_gt, gt_bboxes) ==
    IF num_gt = 0 THEN TRUE ELSE MaxCoord(gt_bboxes) = 0

InitSimOTA ==
    /\ detr = Idle /\ retina = Idle /\ dynk = Idle
    /\ hungarian = Idle /\ build = Idle /\ pafpn = Idle
    /\ fpn = Idle /\ fcos = Idle /\ posembed = Idle
    /\ \E N \in 0..MaxGT, M \in 1..MaxAnchors :
            \E gts \in [1..N -> GroundTruths], preds \in [1..M -> Predictions] :
                simota = MatcherInputs(N, M, gts, preds) @@
                         [pc |-> "called", num_classes |-> NumClasses,
                          topk_candidate |-> TopkCandidate,
                          matching_run |-> FALSE,
                          cls_targets |-> << >>, box_targets |-> << >>, iou_targets |-> << >>]

NotSimOTA == <<detr, retina, dynk, hungarian, build, pafpn,
    fpn, fcos, posembed>>

\* __call__, the early return: every anchor is background
SimOTANoGroundTruth ==
    /\ simota.pc = "called"
    /\ NoGroundTruth(simota.num_gt, simota.gt_bboxes)
    /\ simota' = [simota EXCEPT !.pc = "done",
                    !.cls_targets = NewFull(simota.num_anchors, simota.num_classes),
                    !.box_targets = NewFull(simota.num_anchors, ZeroBox),
                    !.iou_targets = NewFull(simota.num_anchors, 0)]
    /\ UNCHANGED NotSimOTA

\* __call__, the matching path: cost matrix, dynamic_k_matching, post-processing
SimOTAMatch ==
    /\ simota.pc = "called"
    /\ ~NoGroundTruth(simota.num_gt, simota.gt_bboxes)
    /\ LET N    == simota.num_gt
           M    == simota.num_anchors
           ious == Tabulated(PairWiseIoUs(simota.gt_bboxes, simota.pred_box))
           cost == Tabulated(CostMatrix(simota.gt_labels, simota.gt_bboxes, simota.anchors,
                                        simota.pred_cls, simota.pred_box))
       IN \E topk_ids \in TopkIdsChoices(cost,
                                DynamicKs(ious, N, M, simota.topk_candidate), N, M) :
            LET r  == DynamicKMatching(cost, ious, N, M, topk_ids)
                fg == r.fg_mask_inboxes
            IN simota' = [simota EXCEPT !.pc = "done",
                    !.matching_run = TRUE,
                    !.cls_targets = MaskedPut(NewFull(M, simota.num_classes), fg,
                        [a \in DOMAIN r.matched_gt_inds |->
                            simota.gt_labels[r.matched_gt_inds[a]]]),
                    !.box_targets = MaskedPut(NewFull(M, ZeroBox), fg,
                        [a \in DOMAIN r.matched_gt_inds |->
                            simota.gt_bboxes[r.matched_gt_inds[a]]]),
                    !.iou_targets = MaskedPut(NewFull(M, 0), fg, r.matched_pred_ious)]
    /\ UNCHANGED NotSimOTA

NextSimOTA == SimOTANoGroundTruth \/ SimOTAMatch

SpecSimOTA == InitSimOTA /\ [][NextSimOTA]_vars

\* C6: called with no ground truth, or with ground-truth boxes whose maximum
\* coordinate is 0, SimOTAMatcher marks every anchor as background (class
\* num_classes, box (0,0,0,0), IoU 0) and runs no matching.
C6_AllBackground ==
    (simota.pc = "done"
        /\ (Len(simota.gt_labels) = 0
            \/ \A g \in 1..Len(simota.gt_bboxes) : \A i \in 1..4 :
                    /\ simota.gt_bboxes[g][i] <= 0
                    /\ \E h \in 1..Len(simota.gt_bboxes) : \E j \in 1..4 :
                            simota.gt_bboxes[h][j] = 0)) =>
        /\ ~simota.matching_run
        /\ \A a \in 1..simota.num_anchors :
            /\ simota.cls_targets[a] = simota.num_classes
            /\ simota.box_targets[a] = <<0, 0, 0, 0>>
            /\ simota.iou_targets[a] = 0

\* A call with two ground truths, one of them not the all-zero box, whose largest
\* coordinate is 0 returned with every anchor as background.
C6_Witness ==
    /\ simota.pc = "done" /\ simota.num_gt = 2
    /\ \E g \in 1..2 : simota.gt_bboxes[g] # <<0, 0, 0, 0>>
    /\ \A g \in 1..2 : \A i \in 1..4 : simota.gt_bboxes[g][i] <= 0
    /\ \A a \in 1..simota.num_anchors : simota.cls_targets[a] = simota.num_classes

(***************************************************************************)
(* HungarianMatcher.__call__                                               *)
(***************************************************************************)
\* The one-to-one maps of the N ground truths into the M anchors
Injections(N, M) ==
    {f \in [1..N -> 1..M] : \A i, j \in 1..N : i # j => f[i] # f[j]}

\* The sum of the assigned entries.  Padded entries are counted apart from the
\* others, so that the sum pads * 1e9 + rest is compared without overflow.
TotalCost(cost_matrix, f) ==
    LET N == Len(f)
    IN  [pads |-> Cardinality({g \in 1..N : cost_matrix[g][f[g]] = PadValue}),
         rest |-> SumOver([g \in 1..N |->
                     IF cost_matrix[g][f[g]] = PadValue THEN 0 ELSE cost_matrix[g][f[g]]],
                     1..N)]

CostLeq(x, y) == x.pads < y.pads \/ (x.pads = y.pads /\ x.rest <= y.rest)

\* scipy's linear_sum_assignment for N <= M: row_ind is 0..N-1 and col_ind a
\* one-to-one assignment of minimal total cost; any of the optimal ones.
LinearSumAssignment(cost_matrix, N, M) ==
    {f \in Injections(N, M) :
        \A h \in Injections(N, M) : CostLeq(TotalCost(cost_matrix, f), TotalCost(cost_matrix, h))}

InitHungarian ==
    /\ detr = Idle /\ retina = Idle /\ dynk = Idle
    /\ simota = Idle /\ build = Idle /\ pafpn = Idle
    /\ fpn = Idle /\ fcos = Idle /\ posembed = Idle
    /\ \E M \in 1..MaxAnchors :
            \E N \in 1..Min(MaxGT, M) :
                \E gts \in [1..N -> GroundTruths], preds \in [1..M -> Predictions] :
                    hungarian = MatcherInputs(N, M, gts, preds) @@
                         [pc |-> "called", num_classes |-> NumClasses,
                          cost_matrix |-> << >>, gt_indices |-> << >>, pred_indices |-> << >>,
                          fg_mask |-> << >>,
                          cls_target |-> << >>, box_target |-> << >>, iou_target |-> << >>]

NotHungarian == <<detr, retina, dynk, simota, build, pafpn,
    fpn, fcos, posembed>>

\* HungarianMatcher.__call__
HungarianCall ==
    /\ hungarian.pc = "called"
    /\ LET N    == hungarian.num_gt
           M    == hungarian.num_anchors
           ious == Tabulated(PairWiseIoUs(hungarian.gt_bboxes, hungarian.pred_box))
           cost == Tabulated(CostMatrix(hungarian.gt_labels, hungarian.gt_bboxes,
                                        hungarian.anchors, hungarian.pred_cls,
                                        hungarian.pred_box))
       IN \E pred_indices \in LinearSumAssignment(cost, N, M) :
            LET gt_indices == [g \in 1..N |-> g]
            IN hungarian' = [hungarian EXCEPT !.pc = "done",
                    !.cost_matrix = cost,
                    !.gt_indices = gt_indices,
                    !.pred_indices = pred_indices,
                    !.fg_mask = IndexPut(NewFull(M, FALSE), pred_indices,
                                         [g \in 1..N |-> TRUE]),
                    !.cls_target = IndexPut(NewFull(M, hungarian.num_classes), pred_indices,
                                            hungarian.gt_labels),
                    !.box_target = IndexPut(NewFull(M, ZeroBox), pred_indices,
                                            hungarian.gt_bboxes),
                    !.iou_target = IndexPut(NewFull(M, 0), pred_indices,
                        [g \in 1..N |-> ious[gt_indices[g]][pred_indices[g]]])]
    /\ UNCHANGED NotHungarian

NextHungarian == HungarianCall

SpecHungarian == InitHungarian /\ [][NextHungarian]_vars

\* C4: for N <= M every ground truth is assigned exactly one anchor, no anchor is
\* assigned to two ground truths, exactly N anchors are foreground, and the
\* foreground anchor of ground truth g has class target gt_labels[g] and box
\* target gt_bboxes[g].
C4_OneToOne ==
    (hungarian.pc = "done" /\ hungarian.num_gt <= hungarian.num_anchors) =>
        LET N == hungarian.num_gt
            M == hungarian.num_anchors
        IN  /\ Len(hungarian.pred_indices) = N
            /\ \A g \in 1..N : hungarian.pred_indices[g] \in 1..M
            /\ \A g, h \in 1..N :
                    g # h => hungarian.pred_indices[g] # hungarian.pred_indices[h]
            /\ Cardinality({a \in 1..M : hungarian.fg_mask[a]}) = N
            /\ \A a \in 1..M :
                    hungarian.fg_mask[a] <=> \E g \in 1..N : hungarian.pred_indices[g] = a
            /\ \A g \in 1..N :
                /\ hungarian.cls_target[hungarian.pred_indices[g]] = hungarian.gt_labels[g]
                /\ hungarian.box_target[hungarian.pred_indices[g]] = hungarian.gt_bboxes[g]
            /\ \A a \in 1..M :
                    ~hungarian.fg_mask[a] => hungarian.cls_target[a] = hungarian.num_classes

\* Two ground truths with different labels and boxes were assigned, the second
\* one to an anchor of lower index than the first.
C4_Witness ==
    /\ hungarian.pc = "done" /\ hungarian.num_gt = 2
    /\ hungarian.gt_labels[1] # hungarian.gt_labels[2]
    /\ hungarian.gt_bboxes[1] # hungarian.gt_bboxes[2]
    /\ hungarian.pred_indices[2] < hungarian.pred_indices[1]
    /\ hungarian.cls_target[hungarian.pred_indices[2]] = hungarian.gt_labels[2]

\* The cost the claim describes: 1e9 for an anchor whose centre is strictly inside
\* no ground-truth box, else the pairwise loss.
C5_Cost(g, a) ==
    IF \E h \in 1..hungarian.num_gt :
            /\ hungarian.gt_bboxes[h][1] < hungarian.anchors[a][1]
            /\ hungarian.anchors[a][1] < hungarian.gt_bboxes[h][3]
            /\ hungarian.gt_bboxes[h][2] < hungarian.anchors[a][2]
            /\ hungarian.anchors[a][2] < hungarian.gt_bboxes[h][4]
    THEN RawCost(hungarian.gt_labels, hungarian.pred_cls,
                 PairWiseIoUs(hungarian.gt_bboxes, hungarian.pred_box))[g][a]
    ELSE PadValue

C5_CostMatrix ==
    Tabulated([g \in 1..hungarian.num_gt |->
                [a \in 1..hungarian.num_anchors |-> C5_Cost(g, a)]])

\* C5: the assignment chosen by HungarianMatcher has minimal total cost among the
\* injective maps of ground truths to anchors, an anchor inside no ground-truth
\* box costing 1e9 for every ground truth.
C5_MinimalCost ==
    (hungarian.pc = "done" /\ hungarian.num_gt <= hungarian.num_anchors) =>
        \A f \in Injections(hungarian.num_gt, hungarian.num_anchors) :
            CostLeq(TotalCost(C5_CostMatrix, hungarian.pred_indices),
                    TotalCost(C5_CostMatrix, f))

\* An anchor inside no ground-truth box carried the padded cost and the chosen
\* assignment is strictly cheaper than an assignment that uses it.
C5_Witness ==
    /\ hungarian.pc = "done"
    /\ \E a \in 1..hungarian.num_anchors :
        /\ \A g \in 1..hungarian.num_gt : hungarian.cost_matrix[g][a] = PadValue
        /\ \A g \in 1..hungarian.num_gt : hungarian.pred_indices[g] # a
        /\ \E f \in Injections(hungarian.num_gt, hungarian.num_anchors) :
            /\ \E g \in 1..hungarian.num_gt : f[g] = a
            /\ ~CostLeq(TotalCost(C5_CostMatrix, f),
                        TotalCost(C5_CostMatrix, hungarian.pred_indices))

(***************************************************************************)
(* BasicFPN                                                                *)
(*                                                                         *)
(* A feature map is a record [level, h, w, kind]: its pyramid level, its   *)
(* spatial size and whether it is a backbone feature ("C") or a pyramid    *)
(* feature ("P").                                                          *)
(***************************************************************************)
MaxFpnLevels == 3
MaxFpnSize   == 4

\* input_projs[k]: nn.Conv2d(kernel_size=1) or nn.Identity; keeps level and size
InputProj(feat) == [feat EXCEPT !.kind = "P"]

\* smooth_layers[k]: nn.Conv2d(kernel_size=3, padding=1); keeps level and size
SmoothLayer(feat) == [feat EXCEPT !.h = (feat.h + 2 - 3) + 1, !.w = (feat.w + 2 - 3) + 1]

\* F.interpolate(prev_feat, size=feat.shape[2:], mode='nearest')
Interpolate(prev_feat, feat) == [prev_feat EXCEPT !.h = feat.h, !.w = feat.w]

\* feat + top_down_feat: the lateral feature's level, the common size
AddFeats(feat, top_down_feat) ==
    [feat EXCEPT !.h = Max(feat.h, top_down_feat.h), !.w = Max(feat.w, top_down_feat.w)]

\* p6_conv / p7_conv: nn.Conv2d(kernel_size=3, stride=2, padding=1)
StrideTwoConv(feat) ==
    [level |-> feat.level + 1, h |-> DownsampleSize(feat.h),
     w |-> DownsampleSize(feat.w), kind |-> "P"]

OutputsInsert0AsAppend(outputs, x) == Append(outputs, x)

\* outputs.insert(0, x)
OutputsInsert0(outputs, x) == <<x>> \o outputs

\* The loop over zip(feats[1:], input_projs[1:], smooth_layers[1:]); st is the
\* pair (outputs, prev_feat) before iteration k.
RECURSIVE BasicFPNTopDown(_, _, _, _)
BasicFPNTopDown(st, rest, k, steps) ==
    IF k > steps THEN st
    ELSE LET feat          == InputProj(rest[k])
             top_down_feat == Interpolate(st.prev_feat, feat)
             prev_feat     == AddFeats(feat, top_down_feat)
         IN  BasicFPNTopDown([outputs   |-> OutputsInsert0(st.outputs, SmoothLayer(prev_feat)),
                              prev_feat |-> prev_feat],
                             rest, k + 1, steps)

\* BasicFPN.forward
BasicFPNForward(f) ==
    LET input_projs   == [i \in 1..f.n_in |-> "proj"]
        smooth_layers == [i \in 1..f.n_in |-> "smooth"]
        feats         == Reverse(f.feats)
        top_level     == feats[1]
        prev_feat     == InputProj(top_level)
        td            == BasicFPNTopDown([outputs |-> <<SmoothLayer(prev_feat)>>,
                                          prev_feat |-> prev_feat],
                                         Tail(feats), 1,
                                         Zip3Len(Tail(feats), Tail(input_projs), Tail(smooth_layers)))
        p6            == IF f.from_c5 THEN StrideTwoConv(feats[1])
                                      ELSE StrideTwoConv(PyLast(td.outputs))
        with_p6       == IF f.p6_feat THEN Append(td.outputs, p6) ELSE td.outputs
    IN  IF f.p6_feat /\ f.p7_feat THEN Append(with_p6, StrideTwoConv(p6)) ELSE with_p6

\* The input pyramid [C3, C4, C5, ...] of backbone features
BackboneFeats(n, h, w) ==
    [i \in 1..n |-> [level |-> InputPyramid(1, n, h, w)[i].level,
                     h     |-> InputPyramid(1, n, h, w)[i].h,
                     w     |-> InputPyramid(1, n, h, w)[i].w,
                     kind  |-> "C"]]

InitFPN ==
    /\ detr = Idle /\ retina = Idle /\ dynk = Idle /\ simota = Idle
    /\ hungarian = Idle /\ build = Idle /\ pafpn = Idle
    /\ fcos = Idle /\ posembed = Idle
    /\ \E n \in 1..MaxFpnLevels, p6 \in BOOLEAN, p7 \in BOOLEAN, c5 \in BOOLEAN,
           h \in 1..MaxFpnSize, w \in 1..MaxFpnSize :
            fpn = [pc |-> "built",
                   n_in |-> n,
                   p6_feat |-> p6,
                   p7_feat |-> p7,
                   from_c5 |-> c5,
                   feats |-> BackboneFeats(n, h, w),
                   outputs |-> << >>]

NotFPN == <<detr, retina, dynk, simota, hungarian, build, pafpn, fcos, posembed>>

\* BasicFPN.forward
BasicFPNForwardCall ==
    /\ fpn.pc = "built"
    /\ fpn' = [fpn EXCEPT !.pc = "done", !.outputs = BasicFPNForward(fpn)]
    /\ UNCHANGED NotFPN

NextFPN == BasicFPNForwardCall

SpecFPN == InitFPN /\ [][NextFPN]_vars

\* The number of outputs BasicFPN.forward is to return for n inputs
ExpectedFPNOutputs(n, p6_feat, p7_feat) ==
    IF p6_feat THEN (IF p7_feat THEN n + 2 ELSE n + 1) ELSE n

MaxFcosLevels == 2
MaxFcosSize   == 4

\* Values of the learnable Scale parameters (init_value 1.0) and of the raw
\* output of reg_pred, (l, t, r, b) in half pixels
ScaleValues == <<1, -1, 2>>
RawRegs     == <<<<-2, 1, 0, 3>>, <<1, -1, 2, 0>>, <<0, 4, -3, 1>>>>

\* cfg['out_stride']: the stride doubles from level to level
RECURSIVE OutStride(_, _)
OutStride(n, base) == IF n = 0 THEN << >> ELSE OutStride(n - 1, base) \o <<base * 2^(n - 1)>>

\* Spatial size after a 3x3 convolution with padding 1 and stride 1
\* (cls_heads, reg_heads, cls_pred, reg_pred, ctn_pred)
HeadConvSize(n) == (n + 2 * 1 - 3) \div 1 + 1

\* The output [B, C, H, W] of a prediction layer on a feature of size H x W;
\* value[b, y, x] stands for the channels it computes at cell (y, x) of image b
PredLayer(name, B, H, W, value) ==
    [b \in 1..B |-> [y \in 1..HeadConvSize(H) |-> [x \in 1..HeadConvSize(W) |->
        [layer |-> name, cell |-> <<y - 1, x - 1>>, val |-> value[b, y - 1, x - 1]]]]]

\* t.permute(0, 2, 3, 1).contiguous().view(B, -1, C): row k (1-based) is the
\* cell at (k - 1) // W, (k - 1) % W
PermuteView(t, B) ==
    LET H == Len(t[1])
        W == Len(t[1][1])
    IN  [b \in 1..B |-> [k \in 1..(H * W) |-> t[b][((k - 1) \div W) + 1][((k - 1) % W) + 1]]]

GenerateAnchorsTransposed(stride, level, fmp_h, fmp_w) ==
    [k \in 1..(fmp_h * fmp_w) |->
        <<(2 * ((k - 1) \div fmp_h) + 1) * stride[level + 1],
          (2 * ((k - 1) % fmp_h) + 1) * stride[level + 1]>>]

\* FCOSHead.generate_anchors: meshgrid, stack [x, y], view(-1, 2), + 0.5, * stride
GenerateAnchors(stride, level, fmp_h, fmp_w) ==
    LET anchor_y == [i \in 0..(fmp_h - 1) |-> [j \in 0..(fmp_w - 1) |-> i]]
        anchor_x == [i \in 0..(fmp_h - 1) |-> [j \in 0..(fmp_w - 1) |-> j]]
        stacked  == [i \in 0..(fmp_h - 1) |-> [j \in 0..(fmp_w - 1) |->
                        <<anchor_x[i][j], anchor_y[i][j]>>]]
        viewed   == [k \in 1..(fmp_h * fmp_w) |->
                        stacked[(k - 1) \div fmp_w][(k - 1) % fmp_w]]
    IN  [k \in 1..(fmp_h * fmp_w) |->
            <<(2 * viewed[k][1] + 1) * stride[level + 1],
              (2 * viewed[k][2] + 1) * stride[level + 1]>>]

ReluIdentity(v) == v

\* nn.functional.relu
Relu(v) == IF v > 0 THEN v ELSE 0

\* relu(self.scales[level](reg_pred)) * self.stride[level], row by row
ScaleReluStride(reg_pred, scale, stride) ==
    [b \in DOMAIN reg_pred |-> [k \in DOMAIN reg_pred[b] |->
        [reg_pred[b][k] EXCEPT !.val = [c \in 1..4 |-> Relu(reg_pred[b][k].val[c] * scale) * stride]]]]

\* FCOSHead.decode_boxes: anchors [M, 2] broadcast over the batch
DecodeBoxes(pred_deltas, anchors) ==
    [b \in DOMAIN pred_deltas |-> [k \in DOMAIN pred_deltas[b] |->
        [pred_deltas[b][k] EXCEPT !.val =
            <<anchors[k][1] - pred_deltas[b][k].val[1],
              anchors[k][2] - pred_deltas[b][k].val[2],
              anchors[k][1] + pred_deltas[b][k].val[3],
              anchors[k][2] + pred_deltas[b][k].val[4]>>]]]

\* One iteration of the loop of FCOSHead.forward over the pyramid levels
\* (level is 0-based, as enumerate gives it); H, W are the size of cls_feat
FCOSLevel(f, level) ==
    LET feat     == f.pyramid_feats[level + 1]
        B        == f.batch
        H        == HeadConvSize(feat.h)
        W        == HeadConvSize(feat.w)
        anchors  == GenerateAnchors(f.stride, level, H, W)
        zeros    == [b \in 1..B, y \in 0..(H - 1), x \in 0..(W - 1) |-> 0]
        raw      == [b \in 1..B, y \in 0..(H - 1), x \in 0..(W - 1) |->
                        RawRegs[((f.seed + level + b + y * feat.w + x) % Len(RawRegs)) + 1]]
        cls_pred == PermuteView(PredLayer("cls_pred", B, H, W, zeros), B)
        ctn_pred == PermuteView(PredLayer("ctn_pred", B, H, W, zeros), B)
        raw_reg  == PermuteView(PredLayer("reg_pred", B, H, W, raw), B)
        reg_pred == ScaleReluStride(raw_reg, f.scales[level + 1], f.stride[level + 1])
        box_pred == DecodeBoxes(reg_pred, anchors)
        mask_i   == [b \in 1..B |-> [k \in 1..(H * W) |-> FALSE]]
    IN  [anchors |-> anchors, cls_pred |-> cls_pred, reg_pred |-> reg_pred,
         box_pred |-> box_pred, ctn_pred |-> ctn_pred, mask_i |-> mask_i]

\* FCOSHead.forward: the returned dictionary
FCOSForward(f) ==
    LET L      == Len(f.pyramid_feats)
        levels == Tabulated([l \in 1..L |-> FCOSLevel(f, l - 1)])
    IN  [pred_cls |-> [l \in 1..L |-> levels[l].cls_pred],
         pred_reg |-> [l \in 1..L |-> levels[l].reg_pred],
         pred_box |-> [l \in 1..L |-> levels[l].box_pred],
         pred_ctn |-> [l \in 1..L |-> levels[l].ctn_pred],
         anchors  |-> [l \in 1..L |-> levels[l].anchors],
         strides  |-> f.stride,
         mask     |-> IF f.has_mask THEN [l \in 1..L |-> levels[l].mask_i] ELSE << >>]

InitFCOS ==
    /\ detr = Idle /\ retina = Idle /\ dynk = Idle /\ simota = Idle
    /\ hungarian = Idle /\ build = Idle /\ pafpn = Idle
    /\ fpn = Idle /\ posembed = Idle
    /\ \E n_stride \in 1..MaxFcosLevels, n_feats \in 1..MaxFcosLevels,
           base \in 1..2, s0 \in 0..(Len(ScaleValues) - 1), seed \in 0..(Len(RawRegs) - 1),
           B \in 1..MaxBatch, h \in 1..MaxFcosSize, w \in 1..MaxFcosSize,
           has_mask \in BOOLEAN :
            fcos = [pc |-> "built",
                    stride |-> OutStride(n_stride, base),
                    scales |-> [l \in 1..n_stride |-> ScaleValues[((s0 + l) % Len(ScaleValues)) + 1]],
                    pyramid_feats |-> InputPyramid(1, n_feats, h, w),
                    batch |-> B,
                    seed |-> seed,
                    has_mask |-> has_mask,
                    exception |-> "none",
                    outputs |-> << >>]

NotFCOS == <<detr, retina, dynk, simota, hungarian, build, pafpn, fpn, posembed>>

\* FCOSHead.forward returns
FCOSForwardReturn ==
    /\ fcos.pc = "built"
    /\ Len(fcos.pyramid_feats) <= Len(fcos.stride)
    /\ fcos' = [fcos EXCEPT !.pc = "done", !.outputs = FCOSForward(fcos)]
    /\ UNCHANGED NotFCOS

\* FCOSHead.forward with more pyramid levels than strides: self.stride[level]
\* is out of range
FCOSForwardRaise ==
    /\ fcos.pc = "built"
    /\ Len(fcos.pyramid_feats) > Len(fcos.stride)
    /\ fcos' = [fcos EXCEPT !.pc = "raised", !.exception = "IndexError"]
    /\ UNCHANGED NotFCOS

NextFCOS == FCOSForwardReturn \/ FCOSForwardRaise

SpecFCOS == InitFCOS /\ [][NextFCOS]_vars

\* The pyramid levels of a finished forward call, 1-based
FCOSLevels == 1..Len(fcos.pyramid_feats)

\* C14: a box is decoded from its anchor point (xa, ya) and its regression
\* (l, t, r, b) as (xa - l, ya - t, xa + r, ya + b); the regressions forward
\* decodes are non-negative, so every box of pred_box is well-formed and
\* contains its anchor point: x1 <= xa <= x2 and y1 <= ya <= y2.
C14_BoxContainsAnchor ==
    fcos.pc = "done" =>
        \A l \in FCOSLevels : \A b \in 1..fcos.batch :
            \A k \in DOMAIN fcos.outputs.pred_box[l][b] :
                LET box == fcos.outputs.pred_box[l][b][k].val
                    reg == fcos.outputs.pred_reg[l][b][k].val
                    xa  == fcos.outputs.anchors[l][k][1]
                    ya  == fcos.outputs.anchors[l][k][2]
                IN  /\ \A c \in 1..4 : reg[c] >= 0
                    /\ box = <<xa - reg[1], ya - reg[2], xa + reg[3], ya + reg[4]>>
                    /\ box[1] <= xa /\ xa <= box[3]
                    /\ box[2] <= ya /\ ya <= box[4]

\* A level whose Scale is negative: a negative raw regression becomes a
\* positive distance and a positive one is clipped to 0, so some box reaches
\* strictly left of its anchor point and ends at it on the right and top
C14_Witness ==
    /\ fcos.pc = "done"
    /\ \E l \in FCOSLevels :
          /\ fcos.scales[l] < 0
          /\ \E k \in DOMAIN fcos.outputs.pred_box[l][1] :
                LET box == fcos.outputs.pred_box[l][1][k].val
                IN  /\ box[1] < fcos.outputs.anchors[l][k][1]
                    /\ box[3] = fcos.outputs.anchors[l][k][1]
                    /\ box[2] = fcos.outputs.anchors[l][k][2]

MaxDModel  == 8
MaxPosNDim == 3
MaxPosDim  == 5

Ok(shape) == [err |-> "none", shape |-> shape]
Err(e)    == [err |-> e, shape |-> << >>]

\* The operations below take the result t of the operation before and pass
\* an exception on.

\* The product of the sizes shape[from..]
RECURSIVE NumelFrom(_, _)
NumelFrom(shape, from) ==
    IF from > Len(shape) THEN 1 ELSE shape[from] * NumelFrom(shape, from + 1)

\* t[..., i, None]
IndexLastNone(t, i) ==
    IF t.err # "none" THEN t
    ELSE IF Len(t.shape) = 0 THEN Err("IndexError")
    ELSE IF i >= PyLast(t.shape) THEN Err("IndexError")
    ELSE Ok(Append(PyButLast(t.shape), 1))

\* t[:, :, i]
IndexDim2(t, i) ==
    IF t.err # "none" THEN t
    ELSE IF Len(t.shape) < 3 THEN Err("IndexError")
    ELSE IF i >= t.shape[3] THEN Err("IndexError")
    ELSE Ok(SubSeq(t.shape, 1, 2) \o SubSeq(t.shape, 4, Len(t.shape)))

\* t[:, :, None]
UnsqueezeDim2(t) ==
    IF t.err # "none" THEN t
    ELSE IF Len(t.shape) < 2 THEN Err("IndexError")
    ELSE Ok(SubSeq(t.shape, 1, 2) \o <<1>> \o SubSeq(t.shape, 3, Len(t.shape)))

\* t / dim_t, dim_t of shape [n]: broadcasting on the last dimension
DivByDimT(t, n) ==
    IF t.err # "none" THEN t
    ELSE IF Len(t.shape) = 0 THEN Ok(<<n>>)
    ELSE IF PyLast(t.shape) = n \/ n = 1 THEN Ok(t.shape)
    ELSE IF PyLast(t.shape) = 1 THEN Ok(Append(PyButLast(t.shape), n))
    ELSE Err("RuntimeError")

\* Sizes of the slices 0::2 and 1::2 of a dimension of size n
EvenSlice(n) == (n + 1) \div 2
OddSlice(n)  == n \div 2

\* torch.stack((t[..., 0::2].sin(), t[..., 1::2].cos()), dim=-1).flatten(-2)
SinCosLast(t) ==
    IF t.err # "none" THEN t
    ELSE IF Len(t.shape) = 0 THEN Err("IndexError")
    ELSE IF EvenSlice(PyLast(t.shape)) # OddSlice(PyLast(t.shape)) THEN Err("RuntimeError")
    ELSE Ok(Append(PyButLast(t.shape), EvenSlice(PyLast(t.shape)) * 2))

\* torch.stack((t[:, :, 0::2].sin(), t[:, :, 1::2].cos()), dim=3).flatten(2)
SinCosDim2(t) ==
    IF t.err # "none" THEN t
    ELSE IF Len(t.shape) < 3 THEN Err("IndexError")
    ELSE IF EvenSlice(t.shape[3]) # OddSlice(t.shape[3]) THEN Err("RuntimeError")
    ELSE LET sliced  == [t.shape EXCEPT ![3] = EvenSlice(t.shape[3])]
             stacked == SubSeq(sliced, 1, 3) \o <<2>> \o SubSeq(sliced, 4, Len(sliced))
         IN  Ok(SubSeq(stacked, 1, 2) \o <<NumelFrom(stacked, 3)>>)

\* torch.cat(ts, dim=-1) of tensors that were all computed
RECURSIVE SumLast(_, _)
SumLast(ts, k) == IF k > Len(ts) THEN 0 ELSE PyLast(ts[k].shape) + SumLast(ts, k + 1)

CatLast(ts) ==
    IF \E k \in DOMAIN ts : ts[k].err # "none"
    THEN ts[CHOOSE k \in DOMAIN ts : ts[k].err # "none" /\ \A j \in 1..(k - 1) : ts[j].err = "none"]
    ELSE IF \E k \in DOMAIN ts : Len(ts[k].shape) = 0 THEN Err("RuntimeError")
    ELSE IF \E k \in DOMAIN ts :
               \/ Len(ts[k].shape) # Len(ts[1].shape)
               \/ PyButLast(ts[k].shape) # PyButLast(ts[1].shape)
         THEN Err("RuntimeError")
    ELSE Ok(Append(PyButLast(ts[1].shape), SumLast(ts, 1)))

\* The outcome of a sequence of statements: the first exception raised, or
\* otherwise the result of the last statement
RECURSIVE InOrder(_, _)
InOrder(results, k) ==
    IF k = Len(results) \/ results[k].err # "none" THEN results[k]
    ELSE InOrder(results, k + 1)

\* pos2posembed on a position tensor of shape pos
Pos2PosEmbed(pos, d_model) ==
    LET num_pos_feats == d_model \div 2
        pos_x0  == DivByDimT(IndexLastNone(Ok(pos), 0), num_pos_feats)
        pos_y0  == DivByDimT(IndexLastNone(Ok(pos), 1), num_pos_feats)
        pos_x   == SinCosLast(pos_x0)
        pos_y   == SinCosLast(pos_y0)
        w_embed == IndexDim2(Ok(pos), 2)
        pos_w0  == DivByDimT(UnsqueezeDim2(w_embed), num_pos_feats)
        pos_w   == SinCosDim2(pos_w0)
        h_embed == IndexDim2(Ok(pos), 3)
        pos_h0  == DivByDimT(UnsqueezeDim2(h_embed), num_pos_feats)
        pos_h   == SinCosDim2(pos_h0)
        posemb  ==
            IF PyLast(pos) = 2
            THEN CatLast(<<pos_y, pos_x>>)
            ELSE IF PyLast(pos) = 4
            THEN InOrder(<<w_embed, pos_w0, pos_w, h_embed, pos_h0, pos_h,
                           CatLast(<<pos_y, pos_x, pos_w, pos_h>>)>>, 1)
            ELSE Err("ValueError")
    IN  InOrder(<<pos_x0, pos_y0, pos_x, pos_y, posemb>>, 1)

\* Shapes of position tensors: 1 to n dimensions, the last possibly empty
PosShapes(n) ==
    UNION {{lead \o <<last>> : lead \in [1..(k - 1) -> 1..MaxPosDim], last \in 0..MaxPosDim} : k \in 1..n}

InitPosEmbed ==
    /\ detr = Idle /\ retina = Idle /\ dynk = Idle /\ simota = Idle
    /\ hungarian = Idle /\ build = Idle /\ pafpn = Idle
    /\ fpn = Idle /\ fcos = Idle
    /\ \E d_model \in 1..MaxDModel, pos \in PosShapes(MaxPosNDim) :
            posembed = [pc |-> "called",
                        d_model |-> d_model,
                        pos |-> pos,
                        exception |-> "none",
                        posemb |-> << >>]

NotPosEmbed == <<detr, retina, dynk, simota, hungarian, build, pafpn, fpn, fcos>>

\* pos2posembed returns posemb
Pos2PosEmbedReturn ==
    /\ posembed.pc = "called"
    /\ Pos2PosEmbed(posembed.pos, posembed.d_model).err = "none"
    /\ posembed' = [posembed EXCEPT !.pc = "returned",
                        !.posemb = Pos2PosEmbed(posembed.pos, posembed.d_model).shape]
    /\ UNCHANGED NotPosEmbed

\* pos2posembed raises
Pos2PosEmbedRaise ==
    /\ posembed.pc = "called"
    /\ Pos2PosEmbed(posembed.pos, posembed.d_model).err # "none"
    /\ posembed' = [posembed EXCEPT !.pc = "raised",
                        !.exception = Pos2PosEmbed(posembed.pos, posembed.d_model).err]
    /\ UNCHANGED NotPosEmbed

NextPosEmbed == Pos2PosEmbedReturn \/ Pos2PosEmbedRaise

SpecPosEmbed == InitPosEmbed /\ [][NextPosEmbed]_vars

\* C16: pos2posembed raises ValueError for every position tensor whose last
\* dimension is neither 2 nor 4, and otherwise returns an embedding whose last
\* dimension is 2 * (d_model // 2) for 2-component positions and
\* 4 * (d_model // 2) for 4-component positions.
C16_PosEmbed ==
    posembed.pc # "called" =>
        IF PyLast(posembed.pos) \notin {2, 4}
        THEN posembed.pc = "raised" /\ posembed.exception = "ValueError"
        ELSE /\ posembed.pc = "returned"
             /\ PyLast(posembed.posemb) = PyLast(posembed.pos) * (posembed.d_model \div 2)

====
